---- MODULE Spec2Model ----
(***************************************************************************)
(* Module registry and metadata synchronisation of pact_admin/registry.py. *)
(*                                                                         *)
(* The setup CSV (roster), the censored-days CSV (exclusion log), the      *)
(* module-metadata.json files and the site-metadata.json files are the     *)
(* state; every public function of registry.py is one action.              *)
(*                                                                         *)
(* Strings of the code that the code slices or parses are modelled by      *)
(* their parts:                                                            *)
(*   - a module ID 'P-0001-02' is <<"P-", "0001", "02">>; pact_id[:6] is   *)
(*     its first two parts; the literal 'site' is <<"site", "", "">>;      *)
(*   - a date string is <<format, date>>: "iso" for YYYY-MM-DD, "mdy" for  *)
(*     M/D/YY, "bad" for a string pandas cannot parse, "" for the empty    *)
(*     cell. Two strings are equal iff both parts are equal, so the same   *)
(*     calendar date written in two formats is two different strings.      *)
(***************************************************************************)
EXTENDS Integers, Sequences, FiniteSets, TLC

VARIABLES
    roster,   \* PACT_SNL_Outdoor_Modules_SETUP.csv: sequence of rows
    log,      \* PACT_SNL_censored_days_SETUP.csv: sequence of rows
    meta,     \* module-metadata.json files: path -> sequence of module entries
    sitedoc,  \* site-metadata.json files: path -> [label, snow_days]
    tree,     \* batch directories holding the standard directory tree
    last,     \* the last call: its name and how it ended
    conversation,  \* pact_chat.py main: the messages of the chat so far
    pending,  \* pact_chat.py main: the tool call waiting for confirmation
    proc      \* the calls running side by side: what each holds in memory

vars == <<roster, log, meta, sitedoc, tree, last, conversation, pending, proc>>

-----------------------------------------------------------------------------
(* Bounds of the model                                                     *)

MaxRoster == 2      \* rows in the setup CSV
MaxLog == 2         \* rows in the censored-days CSV
MaxDay == 2         \* snow days are the dates 1..MaxDay
MaxIndoor == 1      \* indoor periods per module entry
MaxTurns == 3       \* requests of the user in one chat

-----------------------------------------------------------------------------
(* Inputs                                                                  *)

SITE == <<"site", "", "">>

A1 == <<"P-", "0001", "01">>

A2 == <<"P-", "0001", "02">>

B1 == <<"Q-", "0002", "01">>

PactIds == {A1, A2, B1}



\* cfg['sites']: site key -> outdoor_directory
SiteCfg == [SNL |-> "Outdoor_SNL", S2 |-> "Outdoor_S2"]

SiteKeys == DOMAIN SiteCfg

UnknownSite == "XX"

EmptyStr == <<"", 0>>

BadDate == <<"bad", 0>>

Iso(d) == <<"iso", d>>

\* dates a two-digit year cannot tell apart lie Century apart
Century == 100

\* the date every module is deployed on, and retired on
DeployDay == 2

\* pact_id, start_date and site of add_module: every module at either site
RegisterCalls == {<<id, Iso(DeployDay), site>> : id \in PactIds, site \in SiteKeys}

\* the same date a century later, a date pandas cannot parse, an unknown site
OddRegisterCalls == {<<A1, Iso(DeployDay + Century), "SNL">>,
                     <<A1, BadDate, "SNL">>,
                     <<A1, Iso(DeployDay), UnknownSite>>}

\* pact_id and end_date of retire_module
RetireCalls == {<<id, Iso(DeployDay)>> : id \in PactIds}

OddRetireCalls == {<<A1, BadDate>>}

Before == <<Iso(DeployDay - 1), Iso(DeployDay - 1)>>

On == <<Iso(DeployDay), Iso(DeployDay)>>

After == <<Iso(DeployDay + 1), Iso(DeployDay + 1)>>

\* pact_id, start and end of add_censor: site-wide windows before, on and after
\* the deployment date, and one window for one module
Requests == {<<SITE, w[1], w[2]>> : w \in {Before, On, After}}
                \cup {<<A1, On[1], On[2]>>}

\* one site-wide window, one window for one module, a start pandas cannot parse
SmallRequests == {<<SITE, On[1], On[2]>>, <<A1, On[1], On[2]>>,
                  <<SITE, BadDate, On[2]>>}

\* a window whose end is before its start
Malformed == <<Iso(DeployDay), Iso(DeployDay - 1)>>

\* well-formed and malformed windows, site-wide and for one module
WindowRequests == {<<SITE, On[1], On[2]>>, <<SITE, Malformed[1], Malformed[2]>>,
                   <<A1, Malformed[1], Malformed[2]>>}

\* the dates of add_snow_day
SnowDates == {Iso(d) : d \in 1..MaxDay} \cup {<<"mdy", 1>>, BadDate}

\* the windows of add_indoor
IndoorWindows == {<<Iso(DeployDay), Iso(DeployDay)>>}

Comments == {"snow"}

Areas == {2}

Types == {"MHP"}

\* a row of a setup CSV written by hand: an active module deployed on DeployDay
SetupRow(pact_id, site) ==
    [Start_date |-> <<"mdy", DeployDay>>,
     End_date |-> <<"", 0>>,
     PACT_id |-> pact_id,
     Area |-> CHOOSE a \in Areas : TRUE,
     Active |-> "Y",
     Type |-> CHOOSE t \in Types : TRUE,
     Site |-> site]

\* the setup CSVs an installation starts from, no metadata file written yet
SetupCsvs == {<<>>, <<SetupRow(A1, "SNL")>>, <<SetupRow(A1, "SNL"), SetupRow(A2, "SNL")>>}

-----------------------------------------------------------------------------
(* Date helpers                                                            *)

Parseable(s) == s[1] \in {"iso", "mdy"}

\* pd.to_datetime(date_str).date(): the calendar date of a parseable string
parse_date(s) == s[2]

\* M/D/YY keeps two digits of the year: dates a century apart give one string
format_date_mdy(s) == <<"mdy", ((parse_date(s) - 1) % Century) + 1>>

format_date_iso(s) == <<"iso", parse_date(s)>>

\* pd.Timestamp(str)
Timestamp(s) == parse_date(s)

TimestampMax == 9999

TimestampMin == 0 - TimestampMax

-----------------------------------------------------------------------------
(* Paths                                                                   *)

\* pact_id[:6]
Batch(pact_id) == <<pact_id[1], pact_id[2]>>

\* row.get('Site', 'SNL') or 'SNL'
SiteOf(row) == IF row.Site = "" THEN "SNL" ELSE row.Site

\* base / f'{batch}-XX' / outdoor_directory; the metadata files live below it
get_batch_dir(batch, site_key) == <<batch, SiteCfg[site_key]>>

\* base.glob('P-????-XX')
GlobMatches(batch) == batch[1] = "P-"

-----------------------------------------------------------------------------
(* Sequence helpers                                                        *)

Range(s) == {s[i] : i \in 1..Len(s)}

Ids(rows) == {rows[i].PACT_id : i \in 1..Len(rows)}

\* indices of the rows with this ID
RowsOf(rows, pact_id) == {i \in 1..Len(rows) : rows[i].PACT_id = pact_id}

Min(S) == CHOOSE x \in S : \A y \in S : x <= y

Max(S) == CHOOSE x \in S : \A y \in S : x >= y

\* indices of the entries of a document with this module_id
EntriesOf(data, pact_id) == {i \in 1..Len(data) : data[i].module_id = pact_id}

\* the files as one value, so that a call is a function from files to files
Files == [roster |-> roster, log |-> log, meta |-> meta, sitedoc |-> sitedoc,
          tree |-> tree]

Ok(st) == [st |-> st, res |-> "ok"]

Raise(st, err) == [st |-> st, res |-> err]

-----------------------------------------------------------------------------
(* Private helpers                                                         *)

\* registry.py _lookup_site_key, for an ID the setup CSV holds
lookup_site_key(st, pact_id) == SiteOf(st.roster[Min(RowsOf(st.roster, pact_id))])

create_directory_tree(st, batch, site_key) ==
    [st EXCEPT !.tree = @ \cup {get_batch_dir(batch, site_key)}]

\* _add_module_to_metadata_json starting the document anew
add_module_to_metadata_json_anew(st, pact_id, area, module_type, site_key) ==
    [st EXCEPT !.meta =
        (get_batch_dir(Batch(pact_id), site_key) :>
            <<[module_id |-> pact_id, module_area |-> area,
               module_type |-> module_type,
               days_indoors |-> <<>>, days_censored |-> <<>>]>>) @@ @]

add_module_to_metadata_json(st, pact_id, area, module_type, site_key) ==
    LET path == get_batch_dir(Batch(pact_id), site_key)
        data == IF path \in DOMAIN st.meta THEN st.meta[path] ELSE <<>>
        entry == [module_id |-> pact_id, module_area |-> area,
                  module_type |-> module_type,
                  days_indoors |-> <<>>, days_censored |-> <<>>]
    IN  IF EntriesOf(data, pact_id) # {}
        THEN st
        ELSE [st EXCEPT !.meta = (path :> Append(data, entry)) @@ @]

\* _ensure_site_metadata without the test for an existing file
ensure_site_metadata_overwriting(st, batch, site_key) ==
    [st EXCEPT !.sitedoc =
        (get_batch_dir(batch, site_key) :> [label |-> site_key, snow_days |-> <<>>])
            @@ @]

ensure_site_metadata(st, batch, site_key) ==
    LET site_path == get_batch_dir(batch, site_key)
    IN  IF site_path \in DOMAIN st.sitedoc
        THEN st
        ELSE [st EXCEPT !.sitedoc =
                 (site_path :> [label |-> site_key, snow_days |-> <<>>]) @@ @]

\* _add_censor_to_metadata without the test for an entry already present
add_censor_to_metadata_unchecked(st, pact_id, censor, site_key) ==
    LET meta_path == get_batch_dir(Batch(pact_id), site_key)
    IN  IF meta_path \notin DOMAIN st.meta
        THEN st
        ELSE LET data == st.meta[meta_path]
             IN  IF EntriesOf(data, pact_id) = {}
                 THEN st
                 ELSE LET k == Min(EntriesOf(data, pact_id))
                      IN  [st EXCEPT !.meta[meta_path][k].days_censored =
                                         Append(@, censor)]

add_censor_to_metadata(st, pact_id, censor, site_key) ==
    LET meta_path == get_batch_dir(Batch(pact_id), site_key)
    IN  IF meta_path \notin DOMAIN st.meta
        THEN st
        ELSE LET data == st.meta[meta_path]
             IN  IF EntriesOf(data, pact_id) = {}
                 THEN st
                 ELSE LET k == Min(EntriesOf(data, pact_id))
                      IN  IF \E j \in 1..Len(data[k].days_censored) :
                                 /\ data[k].days_censored[j].start = censor.start
                                 /\ data[k].days_censored[j].end = censor.end
                                 /\ data[k].days_censored[j].comment = censor.comment
                          THEN st
                          ELSE [st EXCEPT !.meta[meta_path][k].days_censored =
                                              Append(@, censor)]

\* append_censored_days_csv opening the file with 'w'
append_censored_days_csv_truncating(st, pact_id, start, end, comment) ==
    [st EXCEPT !.log = <<[pact_id |-> pact_id, start |-> start,
                          end |-> end, comment |-> comment]>>]

append_censored_days_csv(st, pact_id, start, end, comment) ==
    [st EXCEPT !.log = Append(@, [pact_id |-> pact_id, start |-> start,
                                  end |-> end, comment |-> comment])]

-----------------------------------------------------------------------------
(* Module management                                                       *)

\* add_module that meets the unknown site only in create_directory_tree
add_module_site_late(st, pact_id, area, module_type, start_date, site) ==
    IF pact_id \in Ids(st.roster)
    THEN Raise(st, "ValueError: already exists")
    ELSE IF ~Parseable(start_date)
    THEN Raise(st, "ValueError: date")
    ELSE LET new_row == [Start_date |-> format_date_mdy(start_date),
                         End_date |-> EmptyStr,
                         PACT_id |-> pact_id,
                         Area |-> area,
                         Active |-> "Y",
                         Type |-> module_type,
                         Site |-> site]
             st1 == [st EXCEPT !.roster = Append(@, new_row)]
         IN  IF site \notin SiteKeys
             THEN Raise(st1, "KeyError: unknown site")
             ELSE LET st2 == create_directory_tree(st1, Batch(pact_id), site)
                      st3 == add_module_to_metadata_json(st2, pact_id, area,
                                                         module_type, site)
                  IN  Ok(ensure_site_metadata(st3, Batch(pact_id), site))

\* add_module without the test for an ID the setup CSV already holds
add_module_unchecked(st, pact_id, area, module_type, start_date, site) ==
    IF site \notin SiteKeys
    THEN Raise(st, "KeyError: unknown site")
    ELSE IF ~Parseable(start_date)
    THEN Raise(st, "ValueError: date")
    ELSE LET new_row == [Start_date |-> format_date_mdy(start_date),
                         End_date |-> EmptyStr,
                         PACT_id |-> pact_id,
                         Area |-> area,
                         Active |-> "Y",
                         Type |-> module_type,
                         Site |-> site]
             st1 == [st EXCEPT !.roster = Append(@, new_row)]
             st2 == create_directory_tree(st1, Batch(pact_id), site)
             st3 == add_module_to_metadata_json(st2, pact_id, area, module_type, site)
         IN  Ok(ensure_site_metadata(st3, Batch(pact_id), site))

add_module(st, pact_id, area, module_type, start_date, site) ==
    IF site \notin SiteKeys
    THEN Raise(st, "KeyError: unknown site")
    ELSE IF pact_id \in Ids(st.roster)
    THEN Raise(st, "ValueError: already exists")
    ELSE IF ~Parseable(start_date)
    THEN Raise(st, "ValueError: date")
    ELSE LET new_row == [Start_date |-> format_date_mdy(start_date),
                         End_date |-> EmptyStr,
                         PACT_id |-> pact_id,
                         Area |-> area,
                         Active |-> "Y",
                         Type |-> module_type,
                         Site |-> site]
             st1 == [st EXCEPT !.roster = Append(@, new_row)]
             st2 == create_directory_tree(st1, Batch(pact_id), site)
             st3 == add_module_to_metadata_json(st2, pact_id, area, module_type, site)
         IN  Ok(ensure_site_metadata(st3, Batch(pact_id), site))

\* retire_module that clears Active and leaves End_date empty
retire_module_flag_only(st, pact_id, end_date) ==
    LET mask == {i \in RowsOf(st.roster, pact_id) : st.roster[i].Active = "Y"}
    IN  IF mask = {}
        THEN Raise(st, "ValueError: no active module")
        ELSE IF ~Parseable(end_date)
        THEN Raise(st, "ValueError: date")
        ELSE Ok([st EXCEPT !.roster =
                    [i \in 1..Len(@) |->
                        IF i \in mask THEN [@[i] EXCEPT !.Active = "N"] ELSE @[i]]])

\* retire_module whose mask tests only the ID
retire_module_inactive_too(st, pact_id, end_date) ==
    LET mask == RowsOf(st.roster, pact_id)
    IN  IF mask = {}
        THEN Raise(st, "ValueError: no active module")
        ELSE IF ~Parseable(end_date)
        THEN Raise(st, "ValueError: date")
        ELSE Ok([st EXCEPT !.roster =
                    [i \in 1..Len(@) |->
                        IF i \in mask
                        THEN [@[i] EXCEPT !.Active = "N",
                                          !.End_date = format_date_mdy(end_date)]
                        ELSE @[i]]])

\* retire_module whose mask tests only Active == 'Y'
retire_module_every_active(st, pact_id, end_date) ==
    LET mask == {i \in 1..Len(st.roster) : st.roster[i].Active = "Y"}
    IN  IF RowsOf(st.roster, pact_id) = {} \/ mask = {}
        THEN Raise(st, "ValueError: no active module")
        ELSE IF ~Parseable(end_date)
        THEN Raise(st, "ValueError: date")
        ELSE Ok([st EXCEPT !.roster =
                    [i \in 1..Len(@) |->
                        IF i \in mask
                        THEN [@[i] EXCEPT !.Active = "N",
                                          !.End_date = format_date_mdy(end_date)]
                        ELSE @[i]]])

retire_module(st, pact_id, end_date) ==
    LET mask == {i \in RowsOf(st.roster, pact_id) : st.roster[i].Active = "Y"}
    IN  IF mask = {}
        THEN Raise(st, "ValueError: no active module")
        ELSE IF ~Parseable(end_date)
        THEN Raise(st, "ValueError: date")
        ELSE Ok([st EXCEPT !.roster =
                    [i \in 1..Len(@) |->
                        IF i \in mask
                        THEN [@[i] EXCEPT !.Active = "N",
                                          !.End_date = format_date_mdy(end_date)]
                        ELSE @[i]]])

-----------------------------------------------------------------------------
(* Censoring                                                               *)

\* the overlap test with exclusive bounds
Overlaps_exclusive(m_start, m_end, c_start, c_end) ==
    m_start < c_end /\ m_end > c_start

\* m_start <= c_end and m_end >= c_start
Overlaps(m_start, m_end, c_start, c_end) == m_start <= c_end /\ m_end >= c_start

RECURSIVE add_censor_rows(_, _, _, _, _)
\* the loop over df.iterrows() of add_censor, from row k on
add_censor_rows(st, k, censor, c_start, c_end) ==
    IF k > Len(st.roster)
    THEN st
    ELSE LET row == st.roster[k]
             m_end == IF row.End_date # EmptyStr THEN Timestamp(row.End_date)
                                                 ELSE TimestampMax
         IN  IF row.Start_date = EmptyStr
             THEN add_censor_rows(st, k + 1, censor, c_start, c_end)
             ELSE IF Overlaps(Timestamp(row.Start_date), m_end, c_start, c_end)
             THEN add_censor_rows(
                      add_censor_to_metadata(st, row.PACT_id, censor, SiteOf(row)),
                      k + 1, censor, c_start, c_end)
             ELSE add_censor_rows(st, k + 1, censor, c_start, c_end)

add_censor(st, pact_id, start, end, comment) ==
    LET st1 == append_censored_days_csv(st, pact_id, start, end, comment)
        censor == [start |-> start, end |-> end, comment |-> comment]
    IN  IF pact_id = SITE
        THEN IF ~Parseable(start) \/ ~Parseable(end)
             THEN Raise(st1, "ValueError: date")
             ELSE Ok(add_censor_rows(st1, 1, censor, Timestamp(start), Timestamp(end)))
        ELSE IF RowsOf(st1.roster, pact_id) = {}
             THEN Raise(st1, "ValueError: not found in setup CSV")
             ELSE Ok(add_censor_to_metadata(st1, pact_id, censor,
                                            lookup_site_key(st1, pact_id)))

\* add_censor stopped after the append to the censored-days CSV: a site-wide
\* call has patched the modules of the first n rows of the setup CSV only, a
\* call for one module has patched nothing
add_censor_interrupted(st, pact_id, start, end, comment, n) ==
    LET st1 == append_censored_days_csv(st, pact_id, start, end, comment)
        censor == [start |-> start, end |-> end, comment |-> comment]
        head == [st1 EXCEPT !.roster = SubSeq(@, 1, n)]
    IN  IF pact_id = SITE /\ Parseable(start) /\ Parseable(end)
        THEN [add_censor_rows(head, 1, censor, Timestamp(start), Timestamp(end))
                  EXCEPT !.roster = st1.roster]
        ELSE st1

-----------------------------------------------------------------------------
(* Snow days                                                               *)

\* ISO date strings sort as their dates do
IsoLess(a, b) == a[2] < b[2]

\* add_snow_day without the test for a day the list already holds
add_snow_day_repeating(st, date) ==
    IF ~Parseable(date)
    THEN Raise(st, "ValueError: date")
    ELSE LET date_iso == format_date_iso(date)
             outdoor_dirs == {SiteCfg[s] : s \in SiteKeys}
         IN  Ok([st EXCEPT !.sitedoc =
                    [p \in DOMAIN @ |->
                        IF GlobMatches(p[1]) /\ p[2] \in outdoor_dirs
                        THEN [@[p] EXCEPT !.snow_days =
                                  SortSeq(Append(@, date_iso), IsoLess)]
                        ELSE @[p]]])

add_snow_day(st, date) ==
    IF ~Parseable(date)
    THEN Raise(st, "ValueError: date")
    ELSE LET date_iso == format_date_iso(date)
             outdoor_dirs == {SiteCfg[s] : s \in SiteKeys}
         IN  Ok([st EXCEPT !.sitedoc =
                    [p \in DOMAIN @ |->
                        IF /\ GlobMatches(p[1])
                           /\ p[2] \in outdoor_dirs
                           /\ date_iso \notin Range(@[p].snow_days)
                        THEN [@[p] EXCEPT !.snow_days =
                                  SortSeq(Append(@, date_iso), IsoLess)]
                        ELSE @[p]]])

-----------------------------------------------------------------------------
(* Indoor periods                                                          *)

\* add_indoor reporting a missing file as a module that is not registered
add_indoor_one_error(st, pact_id, start, end, comment) ==
    IF RowsOf(st.roster, pact_id) = {}
    THEN Raise(st, "ValueError: not found in setup CSV")
    ELSE LET meta_path == get_batch_dir(Batch(pact_id), lookup_site_key(st, pact_id))
             indoor == [start |-> start, end |-> end, comment |-> comment]
         IN  IF meta_path \notin DOMAIN st.meta
             THEN Raise(st, "ValueError: not found in setup CSV")
             ELSE IF EntriesOf(st.meta[meta_path], pact_id) = {}
             THEN Raise(st, "ValueError: not found in metadata")
             ELSE LET k == Min(EntriesOf(st.meta[meta_path], pact_id))
                  IN  IF indoor \in Range(st.meta[meta_path][k].days_indoors)
                      THEN Ok(st)
                      ELSE Ok([st EXCEPT !.meta[meta_path][k].days_indoors =
                                             Append(@, indoor)])

\* add_indoor without the test for a period the list already holds
add_indoor_repeating(st, pact_id, start, end, comment) ==
    IF RowsOf(st.roster, pact_id) = {}
    THEN Raise(st, "ValueError: not found in setup CSV")
    ELSE LET meta_path == get_batch_dir(Batch(pact_id), lookup_site_key(st, pact_id))
             indoor == [start |-> start, end |-> end, comment |-> comment]
         IN  IF meta_path \notin DOMAIN st.meta
             THEN Raise(st, "FileNotFoundError")
             ELSE IF EntriesOf(st.meta[meta_path], pact_id) = {}
             THEN Raise(st, "ValueError: not found in metadata")
             ELSE LET k == Min(EntriesOf(st.meta[meta_path], pact_id))
                  IN  Ok([st EXCEPT !.meta[meta_path][k].days_indoors =
                                         Append(@, indoor)])

add_indoor(st, pact_id, start, end, comment) ==
    IF RowsOf(st.roster, pact_id) = {}
    THEN Raise(st, "ValueError: not found in setup CSV")
    ELSE LET meta_path == get_batch_dir(Batch(pact_id), lookup_site_key(st, pact_id))
             indoor == [start |-> start, end |-> end, comment |-> comment]
         IN  IF meta_path \notin DOMAIN st.meta
             THEN Raise(st, "FileNotFoundError")
             ELSE LET data == st.meta[meta_path]
                  IN  IF EntriesOf(data, pact_id) = {}
                      THEN Raise(st, "ValueError: not found in metadata")
                      ELSE LET k == Min(EntriesOf(data, pact_id))
                           IN  IF indoor \in Range(data[k].days_indoors)
                               THEN Ok(st)
                               ELSE Ok([st EXCEPT !.meta[meta_path][k].days_indoors =
                                                      Append(@, indoor)])

-----------------------------------------------------------------------------
(* Sync metadata                                                           *)

\* the batches of the setup CSV, in the order of their first row
BatchOrder(rows) ==
    LET firsts == SelectSeq([i \in 1..Len(rows) |-> i],
                     LAMBDA i : \A j \in 1..(i - 1) :
                         Batch(rows[j].PACT_id) # Batch(rows[i].PACT_id))
    IN  [k \in 1..Len(firsts) |-> Batch(rows[firsts[k]].PACT_id)]

\* existing_indoors that forgets the old document
existing_indoors_forgotten(data, pact_id) == <<>>

\* existing_indoors reading the wrong key of the old entry
existing_indoors_wrong_key(data, pact_id) ==
    IF EntriesOf(data, pact_id) = {}
    THEN <<>>
    ELSE data[Max(EntriesOf(data, pact_id))].days_censored

\* existing_indoors: module_id -> days_indoors of the last entry with that ID
existing_indoors(data, pact_id) ==
    IF EntriesOf(data, pact_id) = {}
    THEN <<>>
    ELSE data[Max(EntriesOf(data, pact_id))].days_indoors

\* build_modules that carries days_censored over from the old document
build_modules_keeping_censored(rows, data) ==
    [i \in 1..Len(rows) |->
        [module_id |-> rows[i].PACT_id,
         module_area |-> rows[i].Area,
         module_type |-> rows[i].Type,
         days_indoors |-> existing_indoors(data, rows[i].PACT_id),
         days_censored |->
             IF EntriesOf(data, rows[i].PACT_id) = {}
             THEN <<>>
             ELSE data[Max(EntriesOf(data, rows[i].PACT_id))].days_censored]]

\* the module list built from the rows of one batch, days_censored empty
build_modules(rows, data) ==
    [i \in 1..Len(rows) |->
        [module_id |-> rows[i].PACT_id,
         module_area |-> rows[i].Area,
         module_type |-> rows[i].Type,
         days_indoors |-> existing_indoors(data, rows[i].PACT_id),
         days_censored |-> <<>>]]

\* module_dates[pact_id]: the dates of the last row with that ID
module_start(rows, pact_id) ==
    LET row == rows[Max(RowsOf(rows, pact_id))]
    IN  IF row.Start_date # EmptyStr THEN Timestamp(row.Start_date) ELSE TimestampMin

module_end(rows, pact_id) ==
    LET row == rows[Max(RowsOf(rows, pact_id))]
    IN  IF row.End_date # EmptyStr THEN Timestamp(row.End_date) ELSE TimestampMax

\* apply_censor_row inserting at the head of days_censored
apply_censor_row_prepending(modules, rows, crow) ==
    LET censor == [start |-> crow.start, end |-> crow.end, comment |-> crow.comment]
        hit(i) == IF crow.pact_id # SITE
                  THEN modules[i].module_id = crow.pact_id
                  ELSE Overlaps(module_start(rows, modules[i].module_id),
                                module_end(rows, modules[i].module_id),
                                Timestamp(crow.start), Timestamp(crow.end))
    IN  [i \in 1..Len(modules) |->
            IF /\ i = Max(EntriesOf(modules, modules[i].module_id))
               /\ hit(i)
               /\ censor \notin Range(modules[i].days_censored)
            THEN [modules[i] EXCEPT !.days_censored = <<censor>> \o @]
            ELSE modules[i]]

\* one row of the censored-days CSV applied to the module list of a batch;
\* mod_by_id[id] is the last entry with that ID
apply_censor_row(modules, rows, crow) ==
    LET censor == [start |-> crow.start, end |-> crow.end, comment |-> crow.comment]
        hit(i) == IF crow.pact_id # SITE
                  THEN modules[i].module_id = crow.pact_id
                  ELSE Overlaps(module_start(rows, modules[i].module_id),
                                module_end(rows, modules[i].module_id),
                                Timestamp(crow.start), Timestamp(crow.end))
    IN  [i \in 1..Len(modules) |->
            IF /\ i = Max(EntriesOf(modules, modules[i].module_id))
               /\ hit(i)
               /\ censor \notin Range(modules[i].days_censored)
            THEN [modules[i] EXCEPT !.days_censored = Append(@, censor)]
            ELSE modules[i]]

RECURSIVE censor_scan(_, _, _, _)
\* the loop over censored_df.iterrows(), from row k on
censor_scan(modules, rows, clog, k) ==
    IF k > Len(clog)
    THEN modules
    ELSE censor_scan(apply_censor_row(modules, rows, clog[k]), rows, clog, k + 1)

\* pd.Timestamp raises on the start or end of a site-wide row
ScanRaises(clog) ==
    \E k \in 1..Len(clog) :
        clog[k].pact_id = SITE /\ (~Parseable(clog[k].start) \/ ~Parseable(clog[k].end))

\* sync_batch that writes module-metadata.json only where none exists
sync_batch_creating_only(st, batch) ==
    LET rows == SelectSeq(st.roster, LAMBDA r : Batch(r.PACT_id) = batch)
        site_key == SiteOf(rows[1])
        meta_path == get_batch_dir(batch, site_key)
        modules == censor_scan(build_modules(rows, <<>>), rows, st.log, 1)
    IN  IF ScanRaises(st.log)
        THEN Raise(st, "ValueError: date")
        ELSE IF meta_path \in DOMAIN st.meta
        THEN Ok(ensure_site_metadata(st, batch, site_key))
        ELSE Ok(ensure_site_metadata(
                    [st EXCEPT !.meta = (meta_path :> modules) @@ @],
                    batch, site_key))

\* the body of the loop over batches.items()
sync_batch(st, batch) ==
    LET rows == SelectSeq(st.roster, LAMBDA r : Batch(r.PACT_id) = batch)
        site_key == SiteOf(rows[1])
        meta_path == get_batch_dir(batch, site_key)
        data == IF meta_path \in DOMAIN st.meta THEN st.meta[meta_path] ELSE <<>>
        modules == censor_scan(build_modules(rows, data), rows, st.log, 1)
    IN  IF ScanRaises(st.log)
        THEN Raise(st, "ValueError: date")
        ELSE Ok(ensure_site_metadata(
                    [st EXCEPT !.meta = (meta_path :> modules) @@ @],
                    batch, site_key))

RECURSIVE sync_batches(_, _, _)
sync_batches(st, order, k) ==
    IF k > Len(order)
    THEN Ok(st)
    ELSE LET r == sync_batch(st, order[k])
         IN  IF r.res # "ok" THEN r ELSE sync_batches(r.st, order, k + 1)

sync_metadata(st) == sync_batches(st, BatchOrder(st.roster), 1)

-----------------------------------------------------------------------------
(* The calls                                                               *)

Commit(op, r) ==
    /\ roster' = r.st.roster
    /\ log' = r.st.log
    /\ meta' = r.st.meta
    /\ sitedoc' = r.st.sitedoc
    /\ tree' = r.st.tree
    /\ last' = [op |-> op, res |-> r.res]
    /\ UNCHANGED <<conversation, pending, proc>>

\* the indoor lists stay within the bound
IndoorBounded(st) ==
    \A p \in DOMAIN st.meta : \A i \in 1..Len(st.meta[p]) :
        Len(st.meta[p][i].days_indoors) <= MaxIndoor

Register(calls) ==
    \E c \in calls, area \in Areas, module_type \in Types :
        LET r == add_module(Files, c[1], area, module_type, c[2], c[3])
        IN  Len(r.st.roster) <= MaxRoster /\ Commit("add_module", r)

Retire(calls) ==
    \E c \in calls : Commit("retire_module", retire_module(Files, c[1], c[2]))

Exclude(requests) ==
    \E q \in requests, comment \in Comments :
        /\ Len(log) < MaxLog
        /\ Commit("add_censor", add_censor(Files, q[1], q[2], q[3], comment))

AddSnowDay(dates) ==
    \E date \in dates : Commit("add_snow_day", add_snow_day(Files, date))

MarkIndoor(ids) ==
    \E pact_id \in ids, w \in IndoorWindows, comment \in Comments :
        LET r == add_indoor(Files, pact_id, w[1], w[2], comment)
        IN  IndoorBounded(r.st) /\ Commit("add_indoor", r)

Resync == Commit("sync_metadata", sync_metadata(Files))

\* an add_censor call that stops between two of its writes
ExcludeInterrupted(requests) ==
    \E q \in requests, comment \in Comments, n \in 0..Len(roster) :
        /\ Len(log) < MaxLog
        /\ Commit("add_censor",
                  Raise(add_censor_interrupted(Files, q[1], q[2], q[3], comment, n),
                        "interrupted"))

Init ==
    /\ roster = <<>>
    /\ log = <<>>
    /\ meta = <<>>
    /\ sitedoc = <<>>
    /\ tree = {}
    /\ last = [op |-> "none", res |-> "ok"]
    /\ conversation = <<>>
    /\ pending = <<>>
    /\ proc = <<>>

Next ==
    \/ Register(RegisterCalls \cup OddRegisterCalls)
    \/ Retire(RetireCalls \cup OddRetireCalls)
    \/ Exclude(SmallRequests)
    \/ AddSnowDay({Iso(1), BadDate})
    \/ MarkIndoor({A1})
    \/ Resync

Spec == Init /\ [][Next]_vars

\* the calls that decide the exclusion lists, with every kind of window
NextCensor ==
    \/ Register(RegisterCalls)
    \/ Retire(RetireCalls)
    \/ Exclude(Requests)
    \/ Resync

SpecCensor == Init /\ [][NextCensor]_vars

\* add_snow_day, register and resync, with every date of add_snow_day
NextDays ==
    \/ Register(RegisterCalls)
    \/ AddSnowDay(SnowDates)
    \/ Resync

SpecDays == Init /\ [][NextDays]_vars

\* add_censor with well-formed and malformed windows
NextWindow ==
    \/ Register(RegisterCalls)
    \/ Exclude(WindowRequests)
    \/ Resync

SpecWindow == Init /\ [][NextWindow]_vars

\* add_censor calls that complete and add_censor calls that stop part-way
NextDrift ==
    \/ Register(RegisterCalls)
    \/ Retire(RetireCalls)
    \/ Exclude(Requests)
    \/ ExcludeInterrupted(Requests)
    \/ Resync

SpecDrift == Init /\ [][NextDrift]_vars

\* a setup CSV written by hand and no metadata file
InitSetup ==
    /\ roster \in SetupCsvs
    /\ log = <<>>
    /\ meta = <<>>
    /\ sitedoc = <<>>
    /\ tree = {}
    /\ last = [op |-> "none", res |-> "ok"]
    /\ conversation = <<>>
    /\ pending = <<>>
    /\ proc = <<>>

\* add_indoor for every module, on an installation whose setup CSV came first
NextIndoor ==
    \/ Register(RegisterCalls)
    \/ MarkIndoor(PactIds)
    \/ Resync

SpecIndoor == InitSetup /\ [][NextIndoor]_vars

-----------------------------------------------------------------------------
(* The chat client, pact_chat.py                                           *)

\* the tools of the MCP server the chat is given
ToolNames == {"add_module", "add_censor", "retire_module"}

\* a params dict is modelled by the tool whose arguments it holds: the
\* arguments of add_module, of add_censor, of retire_module; "" is the empty
\* dict and, for a tool name, the absent or empty name
NoTool == ""

NoParams == ""

\* pending = None
NoPending == <<>>

\* the tool function of mcp_server.py run with a params dict: the registry
\* function when the dict holds the tool's arguments, else an error result
\* that FastMCP returns without running the function
call_tool(st, name, params) ==
    IF params # name
    THEN Raise(st, "Error: arguments")
    ELSE IF name = "add_module"
    THEN add_module(st, A1, CHOOSE a \in Areas : TRUE, CHOOSE t \in Types : TRUE,
                    Iso(DeployDay), "SNL")
    ELSE IF name = "add_censor"
    THEN add_censor(st, SITE, On[1], On[2], CHOOSE c \in Comments : TRUE)
    ELSE retire_module(st, A1, Iso(DeployDay))

\* one message of the conversation
Message(role, kind, tool, params) ==
    [role |-> role, kind |-> kind, tool |-> tool, params |-> params]

UserInput == Message("user", "input", NoTool, NoParams)

\* the user has typed a request and the chat has room for it
Typed == Len(conversation) < 2 * MaxTurns

\* chat_completion returned None: the request is taken back
LlmError == Typed /\ UNCHANGED vars

\* the reply is not JSON, asks for a parameter, or is a plain answer: it is
\* printed and recorded
Say(kind) ==
    /\ Typed
    /\ conversation' = conversation \o <<UserInput, Message("assistant", kind, NoTool, NoParams)>>
    /\ UNCHANGED <<roster, log, meta, sitedoc, tree, last, pending, proc>>

PlainText == Say("raw")

Ask == Say("ask")

Chat == Say("chat")

\* action == "confirm": the call is printed for confirmation and kept
Confirm ==
    \E tool_name \in ToolNames :
        /\ Typed
        /\ pending' = <<tool_name, tool_name>>
        /\ conversation' = conversation \o
               <<UserInput, Message("assistant", "confirm", tool_name, tool_name)>>
        /\ UNCHANGED <<roster, log, meta, sitedoc, tree, last, proc>>

\* action == "run": the tool and the params of the reply, else those of
\* pending, are called on the MCP server; the connection may fail
Run ==
    \E tool \in ToolNames \cup {NoTool}, params \in ToolNames \cup {NoParams},
       connected \in BOOLEAN :
        LET tool_name == IF tool # NoTool THEN tool
                         ELSE IF pending # NoPending THEN pending[1] ELSE NoTool
            args == IF params # NoParams THEN params
                    ELSE IF pending # NoPending THEN pending[2] ELSE NoParams
            r == call_tool(Files, tool_name, args)
        IN  /\ Typed
            /\ IF tool_name = NoTool
               THEN /\ conversation' = Append(conversation, UserInput)
                    /\ UNCHANGED <<roster, log, meta, sitedoc, tree, last, pending, proc>>
               ELSE IF connected
               THEN /\ roster' = r.st.roster
                    /\ log' = r.st.log
                    /\ meta' = r.st.meta
                    /\ sitedoc' = r.st.sitedoc
                    /\ tree' = r.st.tree
                    /\ last' = [op |-> tool_name, res |-> r.res]
                    /\ conversation' = conversation \o
                           <<UserInput, Message("assistant", "ran", tool_name, args)>>
                    /\ pending' = NoPending
                    /\ UNCHANGED proc
               ELSE /\ conversation' = conversation \o
                           <<UserInput, Message("assistant", "error", tool_name, args)>>
                    /\ pending' = NoPending
                    /\ UNCHANGED <<roster, log, meta, sitedoc, tree, last, proc>>

\* one turn of the while loop of main for every reply of the LLM
NextChat ==
    \/ LlmError
    \/ PlainText
    \/ Ask
    \/ Confirm
    \/ Run
    \/ Chat

SpecChat == Init /\ [][NextChat]_vars

-----------------------------------------------------------------------------
(* Calls running side by side                                              *)

\* Two processes run registry calls at the same time. A call is a sequence
\* of file operations, each of them one step: the append of a row, the load
\* of a document (json.load) into the memory of the process, the dump of
\* what the process computed from its copy (json.dump). The setup CSV is
\* not written by these calls.

Procs == {1, 2}

Call(op, pact_id, w) == [op |-> op, pact_id |-> pact_id, start |-> w[1], end |-> w[2]]

NoCall == Call("none", SITE, <<EmptyStr, EmptyStr>>)

\* the calls the two processes choose from
RaceCalls == {Call("add_indoor", A1, On), Call("add_indoor", A2, On),
              Call("add_censor", SITE, On), Call("add_censor", A1, After),
              Call("sync_metadata", SITE, <<EmptyStr, EmptyStr>>)}

\* a process between two calls; after a call, the call and how it ended
Idle == [call |-> NoCall, pc |-> "done", todo |-> <<>>, found |-> FALSE,
         data |-> <<>>, clog |-> <<>>, res |-> "ok"]

Finished(c, res) == [Idle EXCEPT !.call = c, !.res = res]

\* the files before the first call
NoFiles == [roster |-> <<>>, log |-> <<>>, meta |-> <<>>, sitedoc |-> <<>>, tree |-> {}]

\* the files after two modules were registered at one site
Installed(id1, id2) ==
    add_module(
        add_module(NoFiles, id1, CHOOSE a \in Areas : TRUE, CHOOSE t \in Types : TRUE,
                   Iso(DeployDay), "SNL").st,
        id2, CHOOSE a \in Areas : TRUE, CHOOSE t \in Types : TRUE,
        Iso(DeployDay), "SNL").st

\* the modules a site-wide add_censor call patches, in the order of the
\* setup CSV; the one module of a call for a module
censor_targets(st, c) ==
    IF c.pact_id # SITE
    THEN <<c.pact_id>>
    ELSE LET hit == SelectSeq(st.roster, LAMBDA row :
                        /\ row.Start_date # EmptyStr
                        /\ Overlaps(Timestamp(row.Start_date),
                                    IF row.End_date # EmptyStr
                                    THEN Timestamp(row.End_date) ELSE TimestampMax,
                                    Timestamp(c.start), Timestamp(c.end)))
         IN  [i \in 1..Len(hit) |-> hit[i].PACT_id]

\* the document the process is about to load or has loaded: that of the
\* batch for sync_metadata, that of the module for the other calls
PathOf(q) ==
    IF q.call.op = "sync_metadata"
    THEN get_batch_dir(q.todo[1],
                       SiteOf(SelectSeq(roster, LAMBDA r : Batch(r.PACT_id) = q.todo[1])[1]))
    ELSE get_batch_dir(Batch(q.todo[1]), lookup_site_key(Files, q.todo[1]))

\* the files as a process that loaded the document again would see them
Loaded_again(q) == Files

\* the files as the process sees them: the document as it was when the
\* process loaded it (or found it absent), the censored-days CSV as
\* sync_metadata read it at its start
Loaded(q) ==
    [Files EXCEPT
        !.meta = IF q.found
                 THEN (PathOf(q) :> q.data) @@ meta
                 ELSE [x \in DOMAIN meta \ {PathOf(q)} |-> meta[x]],
        !.log = IF q.call.op = "sync_metadata" THEN q.clog ELSE log]

\* the first file operations of a call
Begin(p) ==
    /\ proc[p].pc = "done"
    /\ \E c \in RaceCalls :
          /\ c.op = "add_censor" => Len(log) < MaxLog
          /\ log' = IF c.op = "add_censor"
                    THEN append_censored_days_csv(Files, c.pact_id, c.start, c.end,
                                                  CHOOSE x \in Comments : TRUE).log
                    ELSE log
          /\ LET known == RowsOf(roster, c.pact_id) # {}
                 todo == IF c.op = "sync_metadata" THEN BatchOrder(roster)
                         ELSE IF c.op = "add_censor" THEN censor_targets(Files, c)
                         ELSE <<c.pact_id>>
                 q == [Idle EXCEPT !.call = c, !.todo = todo]
                 next ==
                     IF c.pact_id # SITE /\ ~known
                     THEN Finished(c, "ValueError: not found in setup CSV")
                     ELSE IF todo = <<>>
                     THEN Finished(c, "ok")
                     ELSE IF c.op # "add_indoor"
                     THEN [q EXCEPT !.pc = "read",
                                    !.clog = IF c.op = "sync_metadata" THEN log ELSE <<>>]
                     ELSE IF PathOf(q) \notin DOMAIN meta
                     THEN Finished(c, "FileNotFoundError")
                     ELSE [q EXCEPT !.pc = "write", !.found = TRUE,
                                    !.data = meta[PathOf(q)]]
             IN  proc' = [proc EXCEPT ![p] = next]
    /\ UNCHANGED <<roster, meta, sitedoc, tree, last, conversation, pending>>

\* json.load of the next document, where it exists
Read(p) ==
    /\ proc[p].pc = "read"
    /\ proc' = [proc EXCEPT ![p] =
                   [@ EXCEPT !.pc = "write",
                             !.found = PathOf(proc[p]) \in DOMAIN meta,
                             !.data = IF PathOf(proc[p]) \in DOMAIN meta
                                      THEN meta[PathOf(proc[p])] ELSE <<>>]]
    /\ UNCHANGED <<roster, log, meta, sitedoc, tree, last, conversation, pending>>

\* what the call computes from its copy, and the json.dump of it
Write(p) ==
    /\ proc[p].pc = "write"
    /\ LET q == proc[p]
           c == q.call
           path == PathOf(q)
           r == IF c.op = "add_indoor"
                THEN add_indoor(Loaded(q), c.pact_id, c.start, c.end,
                                CHOOSE x \in Comments : TRUE)
                ELSE IF c.op = "add_censor"
                THEN Ok(add_censor_to_metadata(Loaded(q), q.todo[1],
                            [start |-> c.start, end |-> c.end,
                             comment |-> CHOOSE x \in Comments : TRUE],
                            lookup_site_key(Files, q.todo[1])))
                ELSE sync_batch(Loaded(q), q.todo[1])
           dumps == /\ r.res = "ok"
                    /\ path \in DOMAIN r.st.meta
                    /\ \/ c.op = "sync_metadata"
                       \/ q.found /\ r.st.meta[path] # q.data
           rest == Tail(q.todo)
           next == IF r.res # "ok" \/ rest = <<>>
                   THEN Finished(c, r.res)
                   ELSE [q EXCEPT !.pc = "read", !.todo = rest,
                                  !.found = FALSE, !.data = <<>>]
       IN  /\ meta' = IF dumps THEN (path :> r.st.meta[path]) @@ meta ELSE meta
           /\ sitedoc' = IF c.op = "sync_metadata" /\ r.res = "ok"
                         THEN ensure_site_metadata(Files, q.todo[1],
                                 SiteOf(SelectSeq(roster,
                                     LAMBDA x : Batch(x.PACT_id) = q.todo[1])[1])).sitedoc
                         ELSE sitedoc
           /\ proc' = [proc EXCEPT ![p] = next]
    /\ UNCHANGED <<roster, log, tree, last, conversation, pending>>

\* two modules registered, in one batch or in two, and no call running
InitRace ==
    /\ \E id2 \in {A2, B1} :
          /\ roster = Installed(A1, id2).roster
          /\ meta = Installed(A1, id2).meta
          /\ sitedoc = Installed(A1, id2).sitedoc
          /\ tree = Installed(A1, id2).tree
    /\ log = <<>>
    /\ last = [op |-> "none", res |-> "ok"]
    /\ conversation = <<>>
    /\ pending = <<>>
    /\ proc = [p \in Procs |-> Idle]

NextRace == \E p \in Procs : Begin(p) \/ Read(p) \/ Write(p)

SpecRace == InitRace /\ [][NextRace]_vars

-----------------------------------------------------------------------------
(* Claims                                                                  *)

Triple(row) == [start |-> row.start, end |-> row.end, comment |-> row.comment]

Count(x, s) == Cardinality({j \in 1..Len(s) : s[j] = x})

\* the row of the setup CSV of a registered module
RowOf(pact_id) == roster[Min(RowsOf(roster, pact_id))]

\* the document sync_metadata rewrites for the batch of a module
GroupPath(pact_id) ==
    LET first == Min({i \in 1..Len(roster) :
                        Batch(roster[i].PACT_id) = Batch(pact_id)})
    IN  get_batch_dir(Batch(pact_id), SiteOf(roster[first]))

\* the censor lists of a module in one document of m: one per entry
CensorLists(m, path, pact_id) ==
    IF path \in DOMAIN m
    THEN {m[path][i].days_censored : i \in EntriesOf(m[path], pact_id)}
    ELSE {}

\* module.start <= event.end and module.effectiveEnd >= event.start, an absent
\* end date counting as open-ended
LifespanOverlaps(pact_id, e) ==
    /\ RowOf(pact_id).Start_date[2] <= e.end[2]
    /\ \/ RowOf(pact_id).End_date = EmptyStr
       \/ RowOf(pact_id).End_date[2] >= e.start[2]

\* the registered modules a row of the censored-days CSV applies to
Affected(e) ==
    IF e.pact_id = SITE
    THEN {id \in Ids(roster) : LifespanOverlaps(id, e)}
    ELSE {e.pact_id} \cap Ids(roster)

\* some batch has rows of two sites
MixedSites == \E i, j \in 1..Len(roster) :
    /\ Batch(roster[i].PACT_id) = Batch(roster[j].PACT_id)
    /\ SiteOf(roster[i]) # SiteOf(roster[j])

\* C1: resync is idempotent: in every state a sync_metadata call has just
\* left, a second sync_metadata call on the unchanged CSVs leaves every
\* module-metadata.json as the first call left it.
C1_ResyncIdempotent ==
    last.op = "sync_metadata" => sync_metadata(Files).st.meta = meta

\* a sync_metadata call has rebuilt a document holding an indoor period and a
\* censor entry
C1_Witness ==
    /\ last.op = "sync_metadata" /\ last.res = "ok"
    /\ \E p \in DOMAIN meta : \E i \in 1..Len(meta[p]) :
           meta[p][i].days_indoors # <<>> /\ meta[p][i].days_censored # <<>>

\* C2: indoor preservation: a sync_metadata call leaves, in every
\* module-metadata.json, the indoor list of every module the file held as it
\* was (same entries, same order).
C2_IndoorPreserved ==
    [][last'.op = "sync_metadata" =>
         \A p \in DOMAIN meta : \A i \in 1..Len(meta[p]) :
             /\ p \in DOMAIN meta'
             /\ EntriesOf(meta'[p], meta[p][i].module_id) # {}
             /\ \A j \in EntriesOf(meta'[p], meta[p][i].module_id) :
                   meta'[p][j].days_indoors = meta[p][i].days_indoors]_vars

\* a sync_metadata call has rewritten a document of two modules, one of them
\* with an indoor period, after a censor was recorded
C2_Witness ==
    /\ last.op = "sync_metadata" /\ last.res = "ok"
    /\ log # <<>>
    /\ \E p \in DOMAIN meta :
          /\ Len(meta[p]) = 2
          /\ \E i \in 1..2 : meta[p][i].days_indoors # <<>>
          /\ \E i \in 1..2 : meta[p][i].days_censored # <<>>

\* the censor list of every module in Affected(e), in the document of its
\* batch, holds the triple of e exactly once
AttachedOnce(m, e) ==
    \A id \in Affected(e) :
        /\ CensorLists(m, GroupPath(id), id) # {}
        /\ \A l \in CensorLists(m, GroupPath(id), id) : Count(Triple(e), l) = 1

\* C3: no silent loss: after a successful add_censor call, and again after a
\* sync_metadata call on the state it leaves, the censor list of every module
\* the new row applies to (the named module; for 'site' every registered
\* module whose lifespan overlaps the window), in the document of the module's
\* batch, holds the row's (start, end, comment) exactly once.
C3_NoSilentLoss ==
    (last.op = "add_censor" /\ last.res = "ok") =>
        /\ AttachedOnce(meta, log[Len(log)])
        /\ sync_metadata(Files).res = "ok"
        /\ AttachedOnce(sync_metadata(Files).st.meta, log[Len(log)])

\* C3 where every batch has one site: there TLC finds it to hold
C3_OneSitePerBatch == MixedSites \/ C3_NoSilentLoss

\* C4: the censored-days CSV is append-only: a step leaves it as it is, or is
\* an add_censor call and adds one row at its end; every add_censor call adds
\* exactly one row.
C4_LogAppendOnly ==
    [][/\ log' # log => last'.op = "add_censor"
       /\ last'.op = "add_censor" =>
             /\ Len(log') = Len(log) + 1
             /\ SubSeq(log', 1, Len(log)) = log]_vars

\* an add_censor call has added a second row, with documents present
C4_Witness ==
    /\ last.op = "add_censor" /\ Len(log) = 2 /\ log[1] # log[2]
    /\ DOMAIN meta # {}

\* the triple of some row of the log that applies to the module
Applies(pact_id, c) ==
    \E k \in 1..Len(log) : Triple(log[k]) = c /\ pact_id \in Affected(log[k])

\* the documents sync_metadata rewrites
GroupPaths == {GroupPath(id) : id \in Ids(roster)}

\* C5: overlap correctness of resync: after a successful sync_metadata call,
\* in the document of every batch, the triple of a row of the log is in the
\* censor list of a module iff a row with that triple applies to the module:
\* a 'site' row when module.start <= row.end and module.effectiveEnd >=
\* row.start (bounds inclusive, no end date meaning open-ended), a row naming
\* a module to that module and to no other.
C5_OverlapCorrect ==
    (last.op = "sync_metadata" /\ last.res = "ok") =>
        \A p \in GroupPaths : \A i \in 1..Len(meta[p]) : \A k \in 1..Len(log) :
            Triple(log[k]) \in Range(meta[p][i].days_censored)
                <=> Applies(meta[p][i].module_id, Triple(log[k]))

\* sync_metadata has attached a site-wide row to one module of a batch and not
\* to the other, which was retired before the window
C5_Witness ==
    /\ last.op = "sync_metadata" /\ last.res = "ok"
    /\ \E p \in GroupPaths : \E k \in 1..Len(log) :
          /\ log[k].pact_id = SITE
          /\ Len(meta[p]) = 2
          /\ Triple(log[k]) \in Range(meta[p][1].days_censored)
          /\ Triple(log[k]) \notin Range(meta[p][2].days_censored)

\* C6: add_censor and sync_metadata make the same attachment decisions: in a
\* state a successful sync_metadata call has left, a site-wide add_censor call
\* leaves the documents as a sync_metadata call after it would leave them.
C6_SameDecisions ==
    (last.op = "sync_metadata" /\ last.res = "ok") =>
        \A q \in Requests, comment \in Comments :
            q[1] = SITE =>
                LET r == add_censor(Files, q[1], q[2], q[3], comment)
                IN  sync_metadata(r.st).st.meta = r.st.meta

\* C6 where every batch has one site: there TLC finds it to hold
C6_OneSitePerBatch == MixedSites \/ C6_SameDecisions

\* C7: duplicate registration rejected: in every state, an add_module call
\* with a configured site key and an ID the setup CSV holds ends with the
\* 'already exists' error and leaves the setup CSV, the censored-days CSV, the
\* directories and every document as they are.
C7_DuplicateRejected ==
    \A c \in RegisterCalls \cup OddRegisterCalls, area \in Areas, module_type \in Types :
        (c[1] \in Ids(roster) /\ c[3] \in SiteKeys) =>
            LET r == add_module(Files, c[1], area, module_type, c[2], c[3])
            IN  r.res = "ValueError: already exists" /\ r.st = Files

\* an add_module call has been rejected as a duplicate, with two rows in the
\* setup CSV and a row in the censored-days CSV
C7_Witness ==
    /\ last.op = "add_module" /\ last.res = "ValueError: already exists"
    /\ Len(roster) = 2 /\ log # <<>>

\* C8: retirement independence: a successful retire_module call changes only
\* Active and End_date of the rows with that ID; every other row and field,
\* the censored-days CSV, the directories and every document stay as they are.
C8_RetireFrame ==
    \A c \in RetireCalls \cup OddRetireCalls :
        LET r == retire_module(Files, c[1], c[2])
        IN  r.res = "ok" =>
              /\ r.st.log = log /\ r.st.meta = meta
              /\ r.st.sitedoc = sitedoc /\ r.st.tree = tree
              /\ Len(r.st.roster) = Len(roster)
              /\ \A i \in 1..Len(roster) :
                    IF roster[i].PACT_id = c[1]
                    THEN [r.st.roster[i] EXCEPT !.Active = roster[i].Active,
                                               !.End_date = roster[i].End_date]
                             = roster[i]
                    ELSE r.st.roster[i] = roster[i]

\* a retire_module call has retired one of two modules; the other is active
\* and the retired one has a censor entry
C8_Witness ==
    /\ last.op = "retire_module" /\ last.res = "ok"
    /\ Len(roster) = 2
    /\ \E i, j \in 1..2 : roster[i].Active = "N" /\ roster[j].Active = "Y"
    /\ \E p \in DOMAIN meta : \E i \in 1..Len(meta[p]) :
          /\ RowOf(meta[p][i].module_id).Active = "N"
          /\ meta[p][i].days_censored # <<>>

\* C9: day dedup: the snow_days list of every site-metadata.json is strictly
\* ascending: sorted, each day once.
C9_SnowDaysAscending ==
    \A p \in DOMAIN sitedoc :
        \A i, j \in 1..Len(sitedoc[p].snow_days) :
            i < j => /\ sitedoc[p].snow_days[i][1] = "iso"
                     /\ sitedoc[p].snow_days[j][1] = "iso"
                     /\ sitedoc[p].snow_days[i][2] < sitedoc[p].snow_days[j][2]

\* add_snow_day has filled a list with every day, in two documents
C9_Witness ==
    /\ last.op = "add_snow_day" /\ last.res = "ok"
    /\ \E p, q \in DOMAIN sitedoc :
          /\ p # q
          /\ Len(sitedoc[p].snow_days) = MaxDay
          /\ Len(sitedoc[q].snow_days) >= 1

\* a censor entry no row of the censored-days CSV holds
Foreign == [start |-> Iso(0), end |-> Iso(0), comment |-> "edited by hand"]

\* the documents with every censor list replaced by one foreign entry
Scrubbed(m) ==
    [p \in DOMAIN m |->
        [i \in 1..Len(m[p]) |-> [m[p][i] EXCEPT !.days_censored = <<Foreign>>]]]

\* C10: the censored-days CSV is the sole source of censor entries after a
\* resync: the documents sync_metadata rewrites hold only triples of rows of
\* the CSV, and they are the same whatever censor lists the old documents held.
C10_LogSoleSource ==
    LET a == sync_metadata(Files)
        b == sync_metadata([Files EXCEPT !.meta = Scrubbed(meta)])
    IN  a.res = "ok" =>
          /\ b.res = "ok"
          /\ \A p \in GroupPaths :
                /\ b.st.meta[p] = a.st.meta[p]
                /\ \A i \in 1..Len(b.st.meta[p]) :
                      \A c \in Range(b.st.meta[p][i].days_censored) :
                          \E k \in 1..Len(log) : Triple(log[k]) = c

\* sync_metadata has rebuilt a document whose module lost, by its retirement,
\* a censor entry a row of the CSV had given it
C10_Witness ==
    /\ last.op = "sync_metadata" /\ last.res = "ok"
    /\ \E p \in GroupPaths : \E i \in 1..Len(meta[p]) : \E k \in 1..Len(log) :
          /\ log[k].pact_id = SITE
          /\ RowOf(meta[p][i].module_id).Active = "N"
          /\ Triple(log[k]) \notin Range(meta[p][i].days_censored)
          /\ meta[p][i].days_censored # <<>>

\* C11: an existing site-metadata.json is never overwritten: every call keeps
\* every existing file; every call but add_snow_day leaves it as it is, and
\* add_snow_day changes nothing but its snow_days; a file is created only by
\* add_module or sync_metadata, with an empty snow_days list.
C11_SiteDocKept ==
    [][
        /\ \A p \in DOMAIN sitedoc :
             /\ p \in DOMAIN sitedoc'
             /\ last'.op # "add_snow_day" => sitedoc'[p] = sitedoc[p]
             /\ sitedoc'[p].label = sitedoc[p].label
        /\ \A q \in DOMAIN sitedoc' \ DOMAIN sitedoc :
             /\ last'.op \in {"add_module", "sync_metadata"}
             /\ sitedoc'[q].snow_days = <<>>
    ]_vars

\* add_module has registered a second module where the site-metadata.json of
\* the first one holds a snow day
C11_Witness ==
    /\ last.op = "add_module" /\ last.res = "ok"
    /\ Len(roster) = 2
    /\ Cardinality(DOMAIN sitedoc) = 1
    /\ \E p \in DOMAIN sitedoc : sitedoc[p].snow_days # <<>>

\* C12: validation before any write: a call that ends with an error leaves
\* the setup CSV, the censored-days CSV and every document as they were.
C12_FailureWritesNothing ==
    [][last'.res # "ok" => UNCHANGED <<roster, log, meta, sitedoc>>]_vars

\* the same for every call but add_censor
C12_ButAddCensor ==
    [][(last'.res # "ok" /\ last'.op # "add_censor")
          => UNCHANGED <<roster, log, meta, sitedoc>>]_vars

\* C13: add_censor rejects a malformed window: in every state, a call whose
\* end is before its start ends with an error and leaves the censored-days
\* CSV as it is.
C13_MalformedRejected ==
    \A q \in WindowRequests, comment \in Comments :
        parse_date(q[3]) < parse_date(q[2]) =>
            LET r == add_censor(Files, q[1], q[2], q[3], comment)
            IN  r.res # "ok" /\ r.st.log = log

\* no row of the censored-days CSV has its end before its start
C13_NoMalformedRow ==
    \A k \in 1..Len(log) : parse_date(log[k].end) >= parse_date(log[k].start)

\* C14: drift reconciliation: in every state, for every add_censor call and
\* every point after the append at which the call may stop, sync_metadata run
\* on what the stopped call left ends as sync_metadata run after the call that
\* was not stopped does, and writes the same module-metadata.json files; when
\* every batch has one site these are all the module-metadata.json files.
C14_DriftReconciled ==
    \A q \in Requests \cup SmallRequests, comment \in Comments, n \in 0..Len(roster) :
        LET a == sync_metadata(add_censor_interrupted(Files, q[1], q[2], q[3], comment, n))
            b == sync_metadata(add_censor(Files, q[1], q[2], q[3], comment).st)
        IN  /\ a.res = b.res
            /\ \A p \in GroupPaths : a.st.meta[p] = b.st.meta[p]
            /\ ~MixedSites => a.st.meta = b.st.meta

\* a site-wide add_censor call has stopped before the patch of a module whose
\* lifespan overlaps the window, and sync_metadata gives the module the entry
C14_Witness ==
    /\ last.op = "add_censor" /\ last.res = "interrupted"
    /\ log[Len(log)].pact_id = SITE
    /\ \E id \in Affected(log[Len(log)]) :
          /\ GroupPath(id) \in DOMAIN meta
          /\ \E i \in EntriesOf(meta[GroupPath(id)], id) :
                Triple(log[Len(log)]) \notin Range(meta[GroupPath(id)][i].days_censored)
          /\ \A i \in EntriesOf(sync_metadata(Files).st.meta[GroupPath(id)], id) :
                Triple(log[Len(log)])
                    \in Range(sync_metadata(Files).st.meta[GroupPath(id)][i].days_censored)

\* the end dates of retire_module: the deployment date, the day after, a
\* string pandas cannot parse
RetireDates == {Iso(DeployDay), Iso(DeployDay + 1), BadDate}

\* C15: retire precondition: in every state, retire_module succeeds only for an
\* ID that has a row with Active set; for an ID that is absent or has no
\* active row it ends with the 'no active module' error and leaves every file,
\* the End_date of a retired module included, as it is.
C15_RetireNeedsActive ==
    \A pact_id \in PactIds, end_date \in RetireDates :
        LET r == retire_module(Files, pact_id, end_date)
            active == \E i \in RowsOf(roster, pact_id) : roster[i].Active = "Y"
        IN  /\ r.res = "ok" => active
            /\ ~active => r.res = "ValueError: no active module" /\ r.st = Files

\* a retire_module call has been refused where the setup CSV holds a retired
\* module and no active one
C15_Witness ==
    /\ last.op = "retire_module" /\ last.res = "ValueError: no active module"
    /\ roster # <<>>
    /\ \A i \in 1..Len(roster) : roster[i].Active = "N" /\ roster[i].End_date # EmptyStr

\* some batch of a setup CSV has rows of two sites
MixedSitesIn(rows) == \E i, j \in 1..Len(rows) :
    /\ Batch(rows[i].PACT_id) = Batch(rows[j].PACT_id)
    /\ SiteOf(rows[i]) # SiteOf(rows[j])

\* what a successful add_module call c is to leave, r being what it left; the
\* document of the batch is the one at the site the call names
RegisterPost(c, r) ==
    LET p == get_batch_dir(Batch(c[1]), c[3])
        new == r.st.roster[Len(r.st.roster)]
    IN  /\ Len(r.st.roster) = Len(roster) + 1
        /\ SubSeq(r.st.roster, 1, Len(roster)) = roster
        /\ new.PACT_id = c[1] /\ new.Active = "Y" /\ new.End_date = EmptyStr
        /\ new.Start_date[1] = "mdy"
        /\ (new.Start_date[2] - c[2][2]) % Century = 0
        /\ p \in DOMAIN r.st.meta
        /\ Cardinality(EntriesOf(r.st.meta[p], c[1])) = 1
        /\ \A i \in EntriesOf(r.st.meta[p], c[1]) :
              r.st.meta[p][i].days_indoors = <<>> /\ r.st.meta[p][i].days_censored = <<>>
        /\ \A q \in DOMAIN meta :
              /\ q \in DOMAIN r.st.meta
              /\ SubSeq(r.st.meta[q], 1, Len(meta[q])) = meta[q]
              /\ q # p => r.st.meta[q] = meta[q]
        /\ p \in DOMAIN r.st.sitedoc

\* C16: register postcondition: in every state, a successful add_module call
\* leaves the setup CSV with one more row, the last, with the ID, Active set,
\* the start date given, as M/D/YY, and no end date; the module-metadata.json
\* of the batch with exactly one entry for the ID, its lists empty, and every
\* entry it held before; and a site-metadata.json for the batch.
C16_RegisterPost ==
    \A c \in RegisterCalls \cup OddRegisterCalls, area \in Areas, module_type \in Types :
        LET r == add_module(Files, c[1], area, module_type, c[2], c[3])
        IN  r.res = "ok" => RegisterPost(c, r)

\* add_module has added a second entry to a document whose first entry holds a
\* censor entry
C16_Witness ==
    /\ last.op = "add_module" /\ last.res = "ok"
    /\ LET new == roster[Len(roster)]
           p == get_batch_dir(Batch(new.PACT_id), SiteOf(new))
       IN  /\ Len(meta[p]) = 2
           /\ meta[p][1].days_censored # <<>>
           /\ meta[p][2].module_id = new.PACT_id

\* two sets of files agree on the documents that exist and on the modules each
\* lists, their order, type and area, and on every list but those of new_id
SameUpToLists(x, y, new_id) ==
    /\ DOMAIN x.meta = DOMAIN y.meta
    /\ x.sitedoc = y.sitedoc
    /\ \A p \in DOMAIN x.meta :
          /\ Len(x.meta[p]) = Len(y.meta[p])
          /\ \A i \in 1..Len(x.meta[p]) :
                /\ x.meta[p][i].module_id = y.meta[p][i].module_id
                /\ x.meta[p][i].module_type = y.meta[p][i].module_type
                /\ x.meta[p][i].module_area = y.meta[p][i].module_area
                /\ x.meta[p][i].module_id # new_id => x.meta[p][i] = y.meta[p][i]

\* C17: register is equivalent to resync up to list contents: in every state
\* a successful sync_metadata call has left, what a successful add_module call
\* leaves and what sync_metadata makes of it agree on the documents that
\* exist, on the modules of each document, their order, type and area, and on
\* every list but the indoor and censor lists of the new module.
C17_RegisterLikeResync ==
    (last.op = "sync_metadata" /\ last.res = "ok") =>
        \A c \in RegisterCalls, area \in Areas, module_type \in Types :
            LET r == add_module(Files, c[1], area, module_type, c[2], c[3])
            IN  r.res = "ok" => SameUpToLists(r.st, sync_metadata(r.st).st, c[1])

\* the same where the call leaves every batch with one site
C17_OneSitePerBatch ==
    (last.op = "sync_metadata" /\ last.res = "ok") =>
        \A c \in RegisterCalls, area \in Areas, module_type \in Types :
            LET r == add_module(Files, c[1], area, module_type, c[2], c[3])
            IN  r.res = "ok" =>
                  \/ MixedSitesIn(r.st.roster)
                  \/ SameUpToLists(r.st, sync_metadata(r.st).st, c[1])

\* the windows of the add_indoor calls the claims are about
IndoorCalls == {On, After}

\* the document add_indoor opens for a module of the setup CSV
OwnPath(pact_id) == get_batch_dir(Batch(pact_id), SiteOf(RowOf(pact_id)))

\* what a successful add_indoor call for the period indoor is to leave, r
\* being what it left: the files as they are when the module's entry holds
\* the period, else the files with the period at the end of that entry's
\* list; the same call again changes nothing
IndoorPost(pact_id, indoor, r) ==
    LET p == OwnPath(pact_id)
    IN  /\ p \in DOMAIN meta
        /\ Cardinality(EntriesOf(meta[p], pact_id)) = 1
        /\ \A k \in EntriesOf(meta[p], pact_id) :
              /\ IF indoor \in Range(meta[p][k].days_indoors)
                 THEN r.st = Files
                 ELSE r.st = [Files EXCEPT !.meta[p][k].days_indoors = Append(@, indoor)]
              /\ Count(indoor, r.st.meta[p][k].days_indoors) = 1
        /\ add_indoor(r.st, pact_id, indoor.start, indoor.end, indoor.comment)
               = Ok(r.st)

\* C18: mark_indoor is idempotent: in every state, a successful add_indoor call
\* changes nothing when the module's entry holds the period, and otherwise
\* appends the period to the end of the module's indoor list and changes
\* nothing else; a second call with the same arguments changes nothing and
\* the period is in the list once.
C18_IndoorIdempotent ==
    \A pact_id \in PactIds, w \in IndoorCalls, comment \in Comments :
        LET r == add_indoor(Files, pact_id, w[1], w[2], comment)
        IN  r.res = "ok" =>
              IndoorPost(pact_id, [start |-> w[1], end |-> w[2], comment |-> comment], r)

\* add_indoor has given one module of a document of two its indoor period
C18_Witness ==
    /\ last.op = "add_indoor" /\ last.res = "ok"
    /\ \E p \in DOMAIN meta :
          /\ Len(meta[p]) = 2
          /\ \E i, j \in 1..2 :
                meta[p][i].days_indoors # <<>> /\ meta[p][j].days_indoors = <<>>

\* C19: mark_indoor error outcomes: in every state, add_indoor for a module the
\* setup CSV holds whose module-metadata.json does not exist ends with the
\* file-not-found error, add_indoor for a module the setup CSV does not hold
\* ends with the not-in-setup-CSV error, and both leave every file as it is.
C19_IndoorErrors ==
    \A pact_id \in PactIds, w \in IndoorCalls, comment \in Comments :
        LET r == add_indoor(Files, pact_id, w[1], w[2], comment)
        IN  /\ pact_id \notin Ids(roster) =>
                  r.res = "ValueError: not found in setup CSV" /\ r.st = Files
            /\ (pact_id \in Ids(roster) /\ OwnPath(pact_id) \notin DOMAIN meta) =>
                  r.res = "FileNotFoundError" /\ r.st = Files

\* add_indoor has found no module-metadata.json for a module of the setup CSV,
\* where another batch has its document
C19_Witness ==
    /\ last.op = "add_indoor" /\ last.res = "FileNotFoundError"
    /\ DOMAIN meta # {}
    /\ \E pact_id \in Ids(roster) : OwnPath(pact_id) \notin DOMAIN meta

\* what a successful add_snow_day call is to leave in the documents of paths,
\* r being what it left
SnowDayPost(date, r, paths) ==
    /\ DOMAIN r.st.sitedoc = DOMAIN sitedoc
    /\ \A p \in paths :
          \E k \in 1..Len(r.st.sitedoc[p].snow_days) :
              r.st.sitedoc[p].snow_days[k][2] = date[2]
    /\ r.st.roster = roster /\ r.st.log = log /\ r.st.meta = meta

\* C20: add_snow_day reaches every existing site-metadata.json: in every
\* state, after a successful add_snow_day call every site-metadata.json that
\* existed holds the date, none has been created, and the setup CSV, the
\* censored-days CSV and every module-metadata.json are as they were.
C20_EveryDocReached ==
    \A date \in SnowDates :
        LET r == add_snow_day(Files, date)
        IN  r.res = "ok" => SnowDayPost(date, r, DOMAIN sitedoc)

\* the same for the documents of the batches whose name begins with 'P-'
C20_PBatches ==
    \A date \in SnowDates :
        LET r == add_snow_day(Files, date)
        IN  r.res = "ok" =>
              SnowDayPost(date, r, {p \in DOMAIN sitedoc : p[1][1] = "P-"})

\* C21: roster invariant: after any sequence of add_module and retire_module
\* calls, successful or failed, every row of the setup CSV has Active 'Y' and
\* an empty End_date, or Active 'N' and an End_date.
C21_ActiveAgreesWithEnd ==
    \A i \in 1..Len(roster) :
        \/ roster[i].Active = "Y" /\ roster[i].End_date = EmptyStr
        \/ roster[i].Active = "N" /\ roster[i].End_date # EmptyStr
                                  /\ Parseable(roster[i].End_date)

\* a retire_module call has failed where the setup CSV holds a retired module
\* and an active one
C21_Witness ==
    /\ last.op = "retire_module" /\ last.res # "ok"
    /\ \E i, j \in 1..Len(roster) : roster[i].Active = "N" /\ roster[j].Active = "Y"

\* C22: unknown site key is checked first: in every state, add_module with a
\* site key that cfg['sites'] does not hold ends with the unknown-site error,
\* whatever the ID and the date, and leaves the setup CSV, the directories and
\* every document as they are.
C22_UnknownSiteFirst ==
    \A pact_id \in PactIds, start_date \in {Iso(DeployDay), BadDate},
       area \in Areas, module_type \in Types :
        LET r == add_module(Files, pact_id, area, module_type, start_date, UnknownSite)
        IN  r.res = "KeyError: unknown site" /\ r.st = Files

\* add_module has refused an unknown site key for an ID the setup CSV holds
C22_Witness ==
    /\ last.op = "add_module" /\ last.res = "KeyError: unknown site"
    /\ A1 \in Ids(roster)
    /\ DOMAIN meta # {} /\ tree # {}

\* the first row of the censored-days CSV that gives a module the triple c
FirstMatch(pact_id, c) ==
    Min({k \in 1..Len(log) : Triple(log[k]) = c /\ pact_id \in Affected(log[k])})

\* C23: stable ordering of resync: after a successful sync_metadata call the
\* document of every batch lists the modules of the setup CSV whose ID has
\* that batch, all of them and no other, in the order of the CSV, and the
\* censor entries of every module are in the order of the first row of the
\* censored-days CSV that gives the module each of them.
C23_StableOrder ==
    (last.op = "sync_metadata" /\ last.res = "ok") =>
        \A p \in GroupPaths :
            /\ [i \in 1..Len(meta[p]) |-> meta[p][i].module_id]
                 = [i \in 1..Len(SelectSeq(roster, LAMBDA r : Batch(r.PACT_id) = p[1])) |->
                       SelectSeq(roster, LAMBDA r : Batch(r.PACT_id) = p[1])[i].PACT_id]
            /\ \A i \in 1..Len(meta[p]) :
                  \A a, b \in 1..Len(meta[p][i].days_censored) :
                      a < b =>
                          /\ Applies(meta[p][i].module_id, meta[p][i].days_censored[a])
                          /\ Applies(meta[p][i].module_id, meta[p][i].days_censored[b])
                          /\ FirstMatch(meta[p][i].module_id, meta[p][i].days_censored[a])
                               < FirstMatch(meta[p][i].module_id, meta[p][i].days_censored[b])

\* sync_metadata has rebuilt a document of two modules, one of them with two
\* censor entries of which the later window came first in the CSV
C23_Witness ==
    /\ last.op = "sync_metadata" /\ last.res = "ok"
    /\ \E p \in GroupPaths : \E i \in 1..Len(meta[p]) :
          /\ Len(meta[p]) = 2
          /\ Len(meta[p][i].days_censored) = 2
          /\ meta[p][i].days_censored[1].start[2] > meta[p][i].days_censored[2].start[2]

\* C25: exclusion events are never dropped: a censor entry that the
\* days_censored list of a module holds in one state is in the list of that
\* module, in the same document, after every further call.
C25_NeverDropped ==
    [][
        \A p \in DOMAIN meta : \A i \in 1..Len(meta[p]) :
            \A c \in Range(meta[p][i].days_censored) :
                /\ p \in DOMAIN meta'
                /\ \E j \in EntriesOf(meta'[p], meta[p][i].module_id) :
                      c \in Range(meta'[p][j].days_censored)
    ]_vars

\* C26: backfill after late registration: after a successful add_module
\* call, for every site-wide row the censored-days CSV already holds whose
\* window the lifespan of the new module overlaps, the censor list of the
\* module does not hold the row's (start, end, comment), and after a
\* sync_metadata call on that state it holds it exactly once; the list is
\* the one in the document add_module wrote and in the document of the batch.
C26_Backfill ==
    (last.op = "add_module" /\ last.res = "ok") =>
        LET id == roster[Len(roster)].PACT_id
            s == sync_metadata(Files)
        IN  \A k \in 1..Len(log) :
                (log[k].pact_id = SITE /\ LifespanOverlaps(id, log[k])) =>
                    /\ s.res = "ok"
                    /\ \A p \in {OwnPath(id), GroupPath(id)} :
                          /\ \A l \in CensorLists(meta, p, id) :
                                Count(Triple(log[k]), l) = 0
                          /\ CensorLists(s.st.meta, p, id) # {}
                          /\ \A l \in CensorLists(s.st.meta, p, id) :
                                Count(Triple(log[k]), l) = 1

\* C26 where every batch has one site: there TLC finds it to hold
C26_OneSitePerBatch == MixedSites \/ C26_Backfill

\* a module was registered after a site-wide window its lifespan overlaps
\* was recorded, in a batch of one site that already had a module
C26_LateRegistration ==
    /\ last.op = "add_module" /\ last.res = "ok"
    /\ ~MixedSites /\ Len(roster) = 2
    /\ Batch(roster[1].PACT_id) = Batch(roster[2].PACT_id)
    /\ \E k \in 1..Len(log) :
          log[k].pact_id = SITE /\ LifespanOverlaps(roster[2].PACT_id, log[k])

\* C27: duplicate suppression: in every state reached through add_censor and
\* sync_metadata calls (and the add_module and retire_module calls that give
\* them modules), no days_censored list of any document holds two entries
\* with equal start, end and comment, also when the censored-days CSV holds
\* the same triple in several rows, or in a row for one module and in a
\* site-wide row.
C27_NoDuplicates ==
    \A p \in DOMAIN meta : \A i \in 1..Len(meta[p]) :
        \A a, b \in 1..Len(meta[p][i].days_censored) :
            a # b => meta[p][i].days_censored[a] # meta[p][i].days_censored[b]

\* the censored-days CSV holds one triple in a row for a module and in a
\* site-wide row, both calls succeeded, and the module's list holds it once
C27_Witness ==
    /\ last.op \in {"add_censor", "sync_metadata"} /\ last.res = "ok"
    /\ Len(log) = 2
    /\ Triple(log[1]) = Triple(log[2])
    /\ {log[1].pact_id, log[2].pact_id} = {SITE, A1}
    /\ A1 \in Ids(roster)
    /\ \A l \in CensorLists(meta, OwnPath(A1), A1) : Count(Triple(log[1]), l) = 1
    /\ CensorLists(meta, OwnPath(A1), A1) # {}

\* C28: confirm before run in the chat: a turn of the chat loop calls a
\* tool on the MCP server only when pending is set, to that tool and those
\* params, and the conversation holds the confirmation of that call.
C28_ConfirmBeforeRun ==
    [][
        (/\ Len(conversation') = Len(conversation) + 2
         /\ conversation'[Len(conversation')].kind = "ran")
        =>
        /\ pending # NoPending
        /\ pending = <<conversation'[Len(conversation')].tool,
                       conversation'[Len(conversation')].params>>
        /\ \E j \in 1..Len(conversation) :
              /\ conversation[j].kind = "confirm"
              /\ conversation[j].tool = conversation'[Len(conversation')].tool
              /\ conversation[j].params = conversation'[Len(conversation')].params
    ]_vars

\* C30: one document per batch: for every module of the setup CSV, whatever
\* sites were given to add_module, the module-metadata.json that add_module,
\* add_censor and add_indoor write for the module (the one under the site of
\* the module's row) is the one sync_metadata reads the indoor periods from
\* and rewrites for the module's batch (the one under the site of the first
\* row of the batch).
C30_OneDocument ==
    \A id \in Ids(roster) : OwnPath(id) = GroupPath(id)

\* the document at a path, empty where there is none
DocAt(m, path) == IF path \in DOMAIN m THEN m[path] ELSE <<>>

\* the indoor periods a document holds for a module
IndoorsIn(data, pact_id) ==
    UNION {Range(data[i].days_indoors) : i \in EntriesOf(data, pact_id)}

\* C24: lost update under concurrency: when a call dumps a document that
\* another call has written since this call loaded it, every indoor period
\* the other call added in between (in the document now, not in the copy
\* this call loaded, and not the period this call adds itself) is missing
\* from the document after the dump; such an interleaving is reachable
\* (C24_Witness).
C24_LostUpdate ==
    [][
        \A p \in Procs :
            (proc[p].pc = "write" /\ proc'[p].pc # "write" /\ meta' # meta) =>
                \A id \in Ids(roster) :
                    \A w \in IndoorsIn(DocAt(meta, PathOf(proc[p])), id) :
                        (/\ w \notin IndoorsIn(proc[p].data, id)
                         /\ ~(/\ proc[p].call.op = "add_indoor"
                              /\ proc[p].call.pact_id = id
                              /\ proc[p].call.start = w.start
                              /\ proc[p].call.end = w.end))
                        => w \notin IndoorsIn(DocAt(meta', PathOf(proc[p])), id)
    ]_vars

\* two add_indoor calls for two modules of one document have both ended
\* without an error, and the document holds the period of the second only
C24_Witness ==
    /\ \A p \in Procs : /\ proc[p].pc = "done"
                         /\ proc[p].call.op = "add_indoor"
                         /\ proc[p].res = "ok"
    /\ proc[1].call.pact_id = A1 /\ proc[2].call.pact_id = A2
    /\ OwnPath(A1) = OwnPath(A2)
    /\ IndoorsIn(DocAt(meta, OwnPath(A1)), A1) = {}
    /\ IndoorsIn(DocAt(meta, OwnPath(A2)), A2) # {}

\* the row of the censored-days CSV an add_censor call appends
RowFor(c) ==
    [pact_id |-> c.pact_id, start |-> c.start, end |-> c.end,
     comment |-> CHOOSE x \in Comments : TRUE]

\* both processes have ended an add_censor call without an error
BothExcluded ==
    \A p \in Procs : /\ proc[p].pc = "done"
                      /\ proc[p].call.op = "add_censor"
                      /\ proc[p].res = "ok"

\* C29: concurrent add_censor calls are recoverable: when two add_censor
\* calls have run side by side, in whatever interleaving, the censored-days
\* CSV holds the rows of both (twice a row both appended), and a
\* sync_metadata call run then gives every
\* module a row applies to the row's (start, end, comment) exactly once, also
\* where a patch of a document was lost.
C29_Recoverable ==
    BothExcluded =>
        /\ \A p \in Procs : Count(RowFor(proc[p].call), log) >= 1
        /\ RowFor(proc[1].call) = RowFor(proc[2].call)
              => Count(RowFor(proc[1].call), log) >= 2
        /\ sync_metadata(Files).res = "ok"
        /\ \A p \in Procs :
              AttachedOnce(sync_metadata(Files).st.meta, RowFor(proc[p].call))

\* both add_censor calls have ended and the document lacks, for a module
\* one of the rows applies to, the entry of that row: a patch was lost
C29_Witness ==
    /\ BothExcluded
    /\ \E p \in Procs : \E id \in Affected(RowFor(proc[p].call)) :
          \A l \in CensorLists(meta, OwnPath(id), id) :
              Count(Triple(RowFor(proc[p].call)), l) = 0

====
